---------------------------- MODULE Spec2Model ----------------------------
(***************************************************************************)
(* A model of pngme: the chunk type tag (src/src/chunk_type.rs), the chunk *)
(* codec with its CRC-32 (src/src/chunk.rs) and the container operations   *)
(* that src/src/main.rs calls on Png (png.rs is not part of the sources;   *)
(* those three operations are modelled from the specification text).       *)
(*                                                                         *)
(* Representation.                                                         *)
(*   u8      a number in 0..255                                            *)
(*   u32     a record [hi, lo] of two 16-bit halves (TLC's integers are    *)
(*           32-bit signed, a CRC does not fit in one)                     *)
(*   &[u8]   a sequence of u8                                              *)
(*   &str    a sequence of chars, a char being its Unicode scalar value;   *)
(*           as_bytes is the UTF-8 encoding of the chars                   *)
(*   Result  a record with kind "Ok" / "Err" / "Panic"                     *)
(*   usize   64 bits wide: `len as usize + 8` cannot overflow              *)
(***************************************************************************)
EXTENDS Integers, Sequences, FiniteSets, TLC

VARIABLES
    tagInput,         \* chunk_type.rs: the argument handed to a constructor
    tagRes,           \* chunk_type.rs: what the constructor returned
    chunk,            \* chunk.rs: the Chunk last built by Chunk::new
    buf,              \* chunk.rs: the byte buffer handed to Chunk::try_from
    edits,            \* how many times the environment altered buf
    res,              \* chunk.rs: what Chunk::try_from returned for buf
    chunks,           \* Png: the ordered chunk list
    appended,         \* Png: the chunk the last append_chunk added, if still last op
    lookup,           \* Png: the last chunk_by_type call and its answer
    removal           \* Png: the last remove_chunk call, its answer, the list before

vars == <<tagInput, tagRes, chunk, buf, edits, res,
          chunks, appended, lookup, removal>>

tagVars == <<tagInput, tagRes>>
chunkVars == <<chunk, buf, edits, res>>
pngVars == <<chunks, appended, lookup, removal>>

None == [kind |-> "None"]

-----------------------------------------------------------------------------
(* Bounds *)

MaxStrLen == 5      \* longest tag text, in chars
MaxEdits == 1       \* alterations of a buffer between two decodes
MaxPoke == 9        \* highest buffer index the environment overwrites
MaxChunks == 3      \* longest chunk list

-----------------------------------------------------------------------------
(* Bit operations on u8 / u16 / u32 *)

RECURSIVE BitAnd(_, _)
BitAnd(a, b) ==
    IF a = 0 \/ b = 0 THEN 0
    ELSE (a % 2) * (b % 2) + 2 * BitAnd(a \div 2, b \div 2)

RECURSIVE BitXor(_, _)
BitXor(a, b) ==
    IF a = 0 THEN b
    ELSE IF b = 0 THEN a
    ELSE ((a + b) % 2) + 2 * BitXor(a \div 2, b \div 2)

U32(h, l) == [hi |-> h, lo |-> l]

\* ^ on 4-bit operands, tabulated
XorNibble == [a \in 0..15 |-> [b \in 0..15 |-> BitXor(a, b)]]

\* ^ on 16-bit operands, nibble by nibble
Xor16(a, b) ==
    XorNibble[a \div 4096][b \div 4096] * 4096
      + XorNibble[(a \div 256) % 16][(b \div 256) % 16] * 256
      + XorNibble[(a \div 16) % 16][(b \div 16) % 16] * 16
      + XorNibble[a % 16][b % 16]

Xor32(a, b) == U32(Xor16(a.hi, b.hi), Xor16(a.lo, b.lo))

Shr32(a, n) ==
    LET p == 2 ^ n
    IN  U32(a.hi \div p, (a.hi % p) * (65536 \div p) + a.lo \div p)

to_be_bytes(x) == <<x.hi \div 256, x.hi % 256, x.lo \div 256, x.lo % 256>>

from_be_bytes(b) == U32(b[1] * 256 + b[2], b[3] * 256 + b[4])

-----------------------------------------------------------------------------
(* chunk_type.rs *)

is_ascii_alphabetic(b) == (b >= 65 /\ b <= 90) \/ (b >= 97 /\ b <= 122)

Ok(v) == [kind |-> "Ok", value |-> v]

InvalidChunkTypeBytes(b) ==
    [kind |-> "Err", error |-> "InvalidChunkTypeBytes", bytes |-> b]

TryFromSliceError == [kind |-> "Err", error |-> "TryFromSliceError"]

Panic == [kind |-> "Panic"]

ChunkType_try_from_any(b) ==
    IF \E i \in 1..4 : is_ascii_alphabetic(b[i])
    THEN Ok([bytes |-> b])
    ELSE InvalidChunkTypeBytes(b)

ChunkType_try_from(bytes) ==
    IF \A i \in 1..4 : is_ascii_alphabetic(bytes[i])
    THEN Ok([bytes |-> bytes])
    ELSE InvalidChunkTypeBytes(bytes)

\* the UTF-8 encoding of a char below U+10000
encode_utf8(c) ==
    IF c < 128 THEN <<c>>
    ELSE IF c < 2048 THEN <<192 + (c \div 64), 128 + (c % 64)>>
    ELSE <<224 + (c \div 4096), 128 + ((c \div 64) % 64), 128 + (c % 64)>>

RECURSIVE str_as_bytes(_)
str_as_bytes(s) ==
    IF s = <<>> THEN <<>> ELSE encode_utf8(Head(s)) \o str_as_bytes(Tail(s))

\* <[u8; 4]>::try_from(&[u8])
array4_try_from(slice) ==
    IF Len(slice) = 4 THEN Ok(slice) ELSE TryFromSliceError

\* the first four bytes of the text instead of all of them
ChunkType_from_str_prefix(s) ==
    LET b == str_as_bytes(s)
        a == IF Len(b) >= 4 THEN Ok(SubSeq(b, 1, 4)) ELSE TryFromSliceError
    IN  IF a.kind = "Err" THEN a ELSE ChunkType_try_from(a.value)

ChunkType_from_str(s) ==
    LET a == array4_try_from(str_as_bytes(s))
    IN  IF a.kind = "Err" THEN a ELSE ChunkType_try_from(a.value)

ChunkType_bytes(t) == t.bytes

\* eq_ignore_ascii_case instead of ==
ChunkType_eq_ignore_case(a, b) ==
    \A i \in 1..4 : a.bytes[i] % 32 = b.bytes[i] % 32

\* #[derive(PartialEq, Eq)]
ChunkType_eq(a, b) == a.bytes = b.bytes

is_critical(t) == BitAnd(t.bytes[1], 32) = 0

is_public(t) == BitAnd(t.bytes[2], 32) = 0

is_reserved_bit_valid(t) == BitAnd(t.bytes[3], 32) = 0

is_safe_to_copy_inverted(t) == BitAnd(t.bytes[4], 32) = 0

is_safe_to_copy(t) == BitAnd(t.bytes[4], 32) # 0

is_valid(t) == is_reserved_bit_valid(t)

FmtError == [kind |-> "Err", error |-> "fmt::Error"]

\* Display for ChunkType: str::from_utf8 of the four bytes. An ASCII byte is
\* the char of the same value; a tag that went through a constructor holds
\* nothing else, and other bytes are reported as a failure here.
ChunkType_to_string(t) ==
    IF \A i \in 1..4 : t.bytes[i] < 128 THEN Ok(t.bytes) ELSE FmtError

-----------------------------------------------------------------------------
(* Inputs of the tag constructors *)

RuSt == <<82, 117, 83, 116>>
Rust == <<82, 117, 115, 116>>
Ru1t == <<82, 117, 49, 116>>

\* the letters' range ends and their neighbours, a digit, 0, non-ASCII
TagBytes == {0, 49, 64, 65, 90, 91, 96, 97, 122, 123, 128, 255}

\* R u S s t 1 and U+00E9, two bytes in UTF-8
Chars == {82, 117, 83, 115, 116, 49, 233}

RECURSIVE SeqsUpTo(_, _)
SeqsUpTo(S, n) ==
    IF n = 0 THEN {<<>>}
    ELSE LET shorter == SeqsUpTo(S, n - 1)
         IN  shorter \cup {Append(s, x) : s \in shorter, x \in S}

TagIdle == tagInput = None /\ tagRes = None

TagInit ==
    /\ tagInput \in
         {[from |-> "bytes", v |-> a] : a \in [1..4 -> TagBytes]}
           \cup {[from |-> "str", v |-> s] : s \in SeqsUpTo(Chars, MaxStrLen)}
    /\ tagRes = None

TryFromBytes ==
    /\ tagInput.from = "bytes"
    /\ tagRes = None
    /\ tagRes' = ChunkType_try_from(tagInput.v)
    /\ UNCHANGED <<tagInput, chunkVars, pngVars>>

FromStr ==
    /\ tagInput.from = "str"
    /\ tagRes = None
    /\ tagRes' = ChunkType_from_str(tagInput.v)
    /\ UNCHANGED <<tagInput, chunkVars, pngVars>>

-----------------------------------------------------------------------------
(* chunk.rs: compute_crc *)

Poly == U32(60856, 33568)          \* 0xedb88320

AllOnes == U32(65535, 65535)       \* 0xffffffff

RECURSIVE table_entry(_, _)
table_entry(c, k) ==
    IF k = 0 THEN c
    ELSE IF c.lo % 2 # 0
         THEN table_entry(Xor32(Poly, Shr32(c, 1)), k - 1)
         ELSE table_entry(Shr32(c, 1), k - 1)

\* CRC_TABLE, built once
crc_table == [n \in 0..255 |-> table_entry(U32(0, n), 8)]

crc_step(c, byte) ==
    Xor32(crc_table[Xor16(c.lo, byte) % 256], Shr32(c, 8))

IsU32(x) == x.hi \in 0..65535 /\ x.lo \in 0..65535

\* for byte in bytes { crc = ... }; the register is checked to be a u32 after
\* every step, which also makes TLC compute it before it goes on
RECURSIVE crc_loop(_, _, _)
crc_loop(c, bytes, i) ==
    IF i > Len(bytes) THEN c
    ELSE LET next == crc_step(c, bytes[i])
         IN  IF IsU32(next) THEN crc_loop(next, bytes, i + 1) ELSE next

compute_crc(bytes) == Xor32(crc_loop(AllOnes, bytes, 1), AllOnes)

-----------------------------------------------------------------------------
(* chunk.rs: Chunk *)

\* `n as u32` of a usize n
as_u32(n) == U32((n \div 65536) % 65536, n % 65536)

\* the checksum over the payload alone
Chunk_new_data_only(chunk_type, data) ==
    [chunk_type |-> chunk_type, data |-> data, crc |-> compute_crc(data)]

Chunk_new(chunk_type, data) ==
    [chunk_type |-> chunk_type,
     data |-> data,
     crc |-> compute_crc(chunk_type.bytes \o data)]

length(c) == as_u32(Len(c.data))

crc(c) == c.crc

\* the checksum written little-endian
as_bytes_le_crc(c) ==
    LET b == to_be_bytes(c.crc)
    IN  to_be_bytes(as_u32(Len(c.data))) \o c.chunk_type.bytes \o c.data
            \o <<b[4], b[3], b[2], b[1]>>

as_bytes(c) ==
    to_be_bytes(as_u32(Len(c.data))) \o c.chunk_type.bytes \o c.data
        \o to_be_bytes(c.crc)

InvalidChunkLength(e, r) ==
    [kind |-> "Err", error |-> "InvalidChunkLength", expected |-> e, received |-> r]

InvalidChunkCrc(e, c) ==
    [kind |-> "Err", error |-> "InvalidChunkCrc", expected |-> e, computed |-> c]

\* size_of::<(u32, u32)>()
HeaderAndCrc == 8

\* bytes.len() - size_of::<(u32, u32)>() as u32, in usize arithmetic: a
\* negative difference aborts where overflow checks are on and wraps where
\* they are off
received_len(n, checks) ==
    IF n >= HeaderAndCrc THEN Ok(as_u32(n - HeaderAndCrc))
    ELSE IF checks THEN Panic
    ELSE Ok(U32(65535, 65536 + n - HeaderAndCrc))

\* the tag validated before the checksum is compared
Chunk_try_from_tag_first(bytes, checks) ==
    IF Len(bytes) < 4 THEN Panic
    ELSE
    LET len == from_be_bytes(SubSeq(bytes, 1, 4))
        rest == SubSeq(bytes, 5, Len(bytes))
    IN  IF ~(len.hi = 0 /\ len.lo + HeaderAndCrc = Len(rest))
        THEN LET r == received_len(Len(rest), checks)
             IN  IF r.kind = "Panic" THEN Panic
                 ELSE InvalidChunkLength(len, r.value)
        ELSE
        LET body == SubSeq(rest, 1, Len(rest) - 4)
            computed_crc == compute_crc(body)
            declared == from_be_bytes(SubSeq(rest, Len(rest) - 3, Len(rest)))
            chunk_type == ChunkType_try_from(SubSeq(body, 1, 4))
        IN  IF chunk_type.kind = "Err" THEN chunk_type
            ELSE IF computed_crc # declared
            THEN InvalidChunkCrc(declared, computed_crc)
            ELSE Ok(Chunk_new(chunk_type.value, SubSeq(body, 5, Len(body))))

Chunk_try_from(bytes, checks) ==
    IF Len(bytes) < 4 THEN Panic     \* split_at(4): mid > len
    ELSE
    LET len == from_be_bytes(SubSeq(bytes, 1, 4))
        rest == SubSeq(bytes, 5, Len(bytes))
    IN  IF ~(len.hi = 0 /\ len.lo + HeaderAndCrc = Len(rest))
        THEN LET r == received_len(Len(rest), checks)
             IN  IF r.kind = "Panic" THEN Panic
                 ELSE InvalidChunkLength(len, r.value)
        ELSE
        LET body == SubSeq(rest, 1, Len(rest) - 4)
            computed_crc == compute_crc(body)
            declared == from_be_bytes(SubSeq(rest, Len(rest) - 3, Len(rest)))
        IN  IF computed_crc # declared
            THEN InvalidChunkCrc(declared, computed_crc)
            ELSE
            LET chunk_type == ChunkType_try_from(SubSeq(body, 1, 4))
                chunk_data == SubSeq(body, 5, Len(body))
            IN  IF chunk_type.kind = "Err" THEN chunk_type
                ELSE Ok(Chunk_new(chunk_type.value, chunk_data))

-----------------------------------------------------------------------------
(* Inputs of the chunk codec *)


ChunkTagTexts == {RuSt, Rust, Ru1t}

\* "This is where your secret message will be!"
Message ==
    <<84, 104, 105, 115, 32, 105, 115, 32, 119, 104, 101, 114,
       101, 32, 121, 111, 117, 114, 32, 115, 101, 99, 114, 101,
       116, 32, 109, 101, 115, 115, 97, 103, 101, 32, 119, 105,
       108, 108, 32, 98, 101, 33>>

Payloads == {<<>>, <<7>>, Message}

PokeBytes == {0, 49, 114, 255}

ChunkIdle == chunk = None /\ buf = <<>> /\ edits = 0 /\ res = None

ChunkInit ==
    /\ chunk = None
    /\ buf = <<>>
    /\ edits = 0
    /\ res = None

\* main.rs, Encode: Chunk::new(chunk_type.parse()?, message.as_bytes().to_vec())
NewChunk ==
    /\ chunk = None
    /\ \E s \in ChunkTagTexts, d \in Payloads :
         LET t == ChunkType_from_str(s)
         IN  /\ t.kind = "Ok"
             /\ chunk' = Chunk_new(t.value, d)
    /\ UNCHANGED <<buf, edits, res, tagVars, pngVars>>

Serialize ==
    /\ chunk # None
    /\ buf' = as_bytes(chunk)
    /\ edits' = 0
    /\ res' = None
    /\ UNCHANGED <<chunk, tagVars, pngVars>>

\* the environment cuts the buffer short
Truncate ==
    /\ edits < MaxEdits
    /\ \E n \in 0..(Len(buf) - 1) : buf' = SubSeq(buf, 1, n)
    /\ edits' = edits + 1
    /\ res' = None
    /\ UNCHANGED <<chunk, tagVars, pngVars>>

\* the environment appends a byte
Pad ==
    /\ edits < MaxEdits
    /\ \E b \in PokeBytes : buf' = Append(buf, b)
    /\ edits' = edits + 1
    /\ res' = None
    /\ UNCHANGED <<chunk, tagVars, pngVars>>

\* the environment overwrites a byte
Poke ==
    /\ edits < MaxEdits
    /\ \E i \in 1..Len(buf), b \in PokeBytes :
         /\ i <= MaxPoke
         /\ buf[i] # b
         /\ buf' = [buf EXCEPT ![i] = b]
    /\ edits' = edits + 1
    /\ res' = None
    /\ UNCHANGED <<chunk, tagVars, pngVars>>

\* the environment recomputes the trailing checksum of an altered buffer
Reseal ==
    /\ edits > 0
    /\ Len(buf) >= 8
    /\ buf' = SubSeq(buf, 1, Len(buf) - 4)
                \o to_be_bytes(compute_crc(SubSeq(buf, 5, Len(buf) - 4)))
    /\ buf' # buf
    /\ res' = None
    /\ UNCHANGED <<chunk, edits, tagVars, pngVars>>

Decode ==
    /\ res = None
    /\ \E overflow_checks \in BOOLEAN :
         res' = Chunk_try_from(buf, overflow_checks)
    /\ UNCHANGED <<chunk, buf, edits, tagVars, pngVars>>

-----------------------------------------------------------------------------
(* Png: the container operations main.rs calls *)

append_chunk(cs, c) == Append(cs, c)

\* the lowest index whose chunk carries the tag, 0 when there is none
first_index(cs, t) ==
    IF \E i \in 1..Len(cs) : ChunkType_eq(cs[i].chunk_type, t)
    THEN CHOOSE i \in 1..Len(cs) :
           /\ ChunkType_eq(cs[i].chunk_type, t)
           /\ \A j \in 1..(i - 1) : ~ChunkType_eq(cs[j].chunk_type, t)
    ELSE 0

Absent == [kind |-> "Absent"]

Some(i, c) == [kind |-> "Some", index |-> i, chunk |-> c]

chunk_by_type(cs, tag_text) ==
    LET t == ChunkType_from_str(tag_text)
    IN  IF t.kind = "Err" THEN Absent
        ELSE LET i == first_index(cs, t.value)
             IN  IF i = 0 THEN Absent ELSE Some(i, cs[i])

ChunkNotFound == [kind |-> "Err", error |-> "ChunkNotFound"]

RemoveAt(cs, i) == SubSeq(cs, 1, i - 1) \o SubSeq(cs, i + 1, Len(cs))

\* the answer and the chunk list left behind
remove_chunk(cs, tag_text) ==
    LET t == ChunkType_from_str(tag_text)
    IN  IF t.kind = "Err" THEN [result |-> t, chunks |-> cs]
        ELSE LET i == first_index(cs, t.value)
             IN  IF i = 0 THEN [result |-> ChunkNotFound, chunks |-> cs]
                 ELSE [result |-> Ok(i), chunks |-> RemoveAt(cs, i)]

-----------------------------------------------------------------------------
(* Inputs of the container *)

ruSt == <<114, 117, 83, 116>>
RuS == <<82, 117, 83>>

PngTagTexts == {RuSt, ruSt, Ru1t, RuS}

PngPayloads == {<<>>, <<7>>}

PngIdle == chunks = <<>> /\ appended = None /\ lookup = None /\ removal = None

PngInit == PngIdle

\* main.rs, Encode: png.append_chunk(Chunk::new(chunk_type.parse()?, ...))
AppendChunk ==
    /\ Len(chunks) < MaxChunks
    /\ \E s \in PngTagTexts, d \in PngPayloads :
         LET t == ChunkType_from_str(s)
         IN  /\ t.kind = "Ok"
             /\ chunks' = append_chunk(chunks, Chunk_new(t.value, d))
             /\ appended' = Chunk_new(t.value, d)
    /\ lookup' = None
    /\ removal' = None
    /\ UNCHANGED <<tagVars, chunkVars>>

\* main.rs, Decode: png.chunk_by_type(&chunk_type)
ChunkByType ==
    /\ \E s \in PngTagTexts :
         lookup' = [query |-> s, result |-> chunk_by_type(chunks, s)]
    /\ removal' = None
    /\ UNCHANGED <<chunks, appended, tagVars, chunkVars>>

\* main.rs, Remove: png.remove_chunk(&chunk_type)?
RemoveChunk ==
    /\ \E s \in PngTagTexts :
         LET r == remove_chunk(chunks, s)
         IN  /\ chunks' = r.chunks
             /\ removal' = [query |-> s, before |-> chunks, result |-> r.result]
    /\ appended' = None
    /\ lookup' = None
    /\ UNCHANGED <<tagVars, chunkVars>>

-----------------------------------------------------------------------------
(* Specifications *)

\* the tag constructors on every input
TagNext == TryFromBytes \/ FromStr

InitTag == TagInit /\ ChunkIdle /\ PngIdle

SpecTag == InitTag /\ [][TagNext]_vars

\* the chunk codec: build, serialize, alter, decode
Init == TagIdle /\ ChunkInit /\ PngIdle

Next == NewChunk \/ Serialize \/ Truncate \/ Pad \/ Poke \/ Reseal \/ Decode

Spec == Init /\ [][Next]_vars

\* the container
PngNext == AppendChunk \/ ChunkByType \/ RemoveChunk

InitPng == TagIdle /\ ChunkIdle /\ PngInit

SpecPng == InitPng /\ [][PngNext]_vars

-----------------------------------------------------------------------------
(* Properties of the tag constructors, checked under SpecTag *)

Upper == 65..90

Lower == 97..122

Letters == Upper \cup Lower

AllLetters(b) == \A i \in 1..Len(b) : b[i] \in Letters

\* C6: construction from 4 raw bytes succeeds exactly when all four are ASCII
\* letters; on success bytes() is the input array, and any array holding a
\* non-letter (digit, punctuation, control, byte >= 128) in any position is
\* refused with InvalidChunkTypeBytes.
C6_TagFromBytes ==
    (tagInput.from = "bytes" /\ tagRes # None) =>
        IF AllLetters(tagInput.v)
        THEN tagRes.kind = "Ok" /\ ChunkType_bytes(tagRes.value) = tagInput.v
        ELSE tagRes.kind = "Err" /\ tagRes.error = "InvalidChunkTypeBytes"
                /\ tagRes.bytes = tagInput.v

\* an array with one byte >= 128 among letters has been refused
C6_Witness ==
    /\ tagInput.from = "bytes"
    /\ tagInput.v = <<65, 122, 128, 97>>
    /\ tagRes.kind = "Err"

\* the number of bytes a text takes in UTF-8
RECURSIVE Utf8Len(_)
Utf8Len(s) ==
    IF s = <<>> THEN 0
    ELSE (IF Head(s) < 128 THEN 1 ELSE IF Head(s) < 2048 THEN 2 ELSE 3)
            + Utf8Len(Tail(s))

Bit20Set(b) == (b \div 32) % 2 = 1

\* C8: for every constructed tag is_critical, is_public and
\* is_reserved_bit_valid hold exactly when bit 0x20 of byte 0, 1, 2 is clear
\* (an uppercase letter), is_safe_to_copy exactly when bit 0x20 of byte 3 is
\* set (a lowercase letter), and is_valid equals is_reserved_bit_valid;
\* "RuSt" is critical, not public, reserved-bit valid and safe to copy, and
\* "Rust" is constructed but not valid.
C8_TagFlags ==
    tagRes.kind = "Ok" =>
        LET t == tagRes.value
            b == t.bytes
        IN  /\ is_critical(t) = ~Bit20Set(b[1])
            /\ is_critical(t) = (b[1] \in Upper)
            /\ is_public(t) = ~Bit20Set(b[2])
            /\ is_public(t) = (b[2] \in Upper)
            /\ is_reserved_bit_valid(t) = ~Bit20Set(b[3])
            /\ is_reserved_bit_valid(t) = (b[3] \in Upper)
            /\ is_safe_to_copy(t) = Bit20Set(b[4])
            /\ is_safe_to_copy(t) = (b[4] \in Lower)
            /\ is_valid(t) = is_reserved_bit_valid(t)
            /\ is_valid(t) = (b[3] \in Upper)
            /\ b = RuSt => /\ is_critical(t)
                           /\ ~is_public(t)
                           /\ is_reserved_bit_valid(t)
                           /\ is_safe_to_copy(t)
                           /\ is_valid(t)
            /\ b = Rust => ~is_valid(t)

\* the text "Rust" has been turned into a tag
C8_Witness ==
    /\ tagInput.from = "str"
    /\ tagInput.v = Rust
    /\ tagRes.kind = "Ok"
    /\ ~is_valid(tagRes.value)

-----------------------------------------------------------------------------
(* Properties of the chunk codec, checked under Spec *)

\* the buffer is the untouched serialization of the chunk
Pristine == chunk # None /\ edits = 0 /\ Len(buf) > 0

\* C1: decoding the bytes as_bytes() produced for a chunk built by Chunk::new
\* succeeds and yields the same tag bytes, the same payload and the same
\* checksum.
C1_RoundTrip ==
    (Pristine /\ res # None) =>
        /\ res.kind = "Ok"
        /\ res.value.chunk_type.bytes = chunk.chunk_type.bytes
        /\ res.value.data = chunk.data
        /\ res.value.crc = chunk.crc

\* the serialized 42-byte message chunk has been decoded
C1_Witness ==
    /\ Pristine
    /\ chunk.data = Message
    /\ res.kind = "Ok"

\* C2 as stated: decoding a buffer of fewer than 4 bytes returns an ordinary
\* error value, the truncated-input error of the slice-to-array conversion;
\* it does not abort.
C2_ShortInputIsError ==
    (res # None /\ Len(buf) < 4) =>
        res.kind = "Err" /\ res.error = "TryFromSliceError"

\* the declared length L of a buffer of at least 4 bytes
DeclaredLen(b) == U32(b[1] * 256 + b[2], b[3] * 256 + b[4])

\* the remaining bytes R = L + 8
LengthOk(b) ==
    Len(b) >= 4 /\ DeclaredLen(b).hi = 0 /\ DeclaredLen(b).lo + 8 = Len(b) - 4

\* R - 8 as a u32, wrapped when R < 8
ReceivedU32(r) == IF r >= 8 THEN U32(0, r - 8) ELSE U32(65535, 65528 + r)

\* C3 as stated: for every buffer of at least 4 bytes whose remaining byte
\* count R differs from L + 8, decode returns InvalidChunkLength with
\* expected = L and received = R - 8, for every R, R < 8 included.
C3_LengthMismatchIsError ==
    (res # None /\ Len(buf) >= 4 /\ ~LengthOk(buf)) =>
        /\ res.kind = "Err"
        /\ res.error = "InvalidChunkLength"
        /\ res.expected = DeclaredLen(buf)
        /\ res.received = ReceivedU32(Len(buf) - 4)

TagOf(b) == SubSeq(b, 5, 8)

DeclaredCrc(b) ==
    LET n == Len(b)
    IN  U32(b[n - 3] * 256 + b[n - 2], b[n - 1] * 256 + b[n])

\* C4: for a buffer that passes the length check, a trailing checksum that
\* differs from the CRC-32 of the tag and payload bytes gives InvalidChunkCrc
\* with expected = the declared and computed = the computed value, also when
\* the tag holds a non-letter; InvalidChunkTypeBytes is reported only when
\* length and checksum are both right.
C4_ChecksumBeforeTag ==
    (res # None /\ LengthOk(buf)) =>
        LET computed == compute_crc(SubSeq(buf, 5, Len(buf) - 4))
        IN  /\ DeclaredCrc(buf) # computed =>
                 /\ res.kind = "Err"
                 /\ res.error = "InvalidChunkCrc"
                 /\ res.expected = DeclaredCrc(buf)
                 /\ res.computed = computed
            /\ (DeclaredCrc(buf) = computed /\ ~AllLetters(TagOf(buf))) =>
                 /\ res.kind = "Err"
                 /\ res.error = "InvalidChunkTypeBytes"
            /\ (DeclaredCrc(buf) = computed /\ AllLetters(TagOf(buf))) =>
                 res.kind = "Ok"

\* a buffer with a right length, a wrong checksum and a non-letter in its
\* tag has been refused for its checksum
C4_Witness ==
    /\ res.kind = "Err"
    /\ res.error = "InvalidChunkCrc"
    /\ LengthOk(buf)
    /\ ~AllLetters(TagOf(buf))

\* CRC-32 bit by bit: the register is shifted right once per bit of input
\* and the polynomial is added whenever a one falls out
RECURSIVE RefBits(_, _)
RefBits(c, k) ==
    IF k = 0 THEN c
    ELSE RefBits(IF c.lo % 2 = 1 THEN Xor32(Shr32(c, 1), Poly)
                 ELSE Shr32(c, 1), k - 1)

RECURSIVE RefLoop(_, _, _)
RefLoop(c, bytes, i) ==
    IF i > Len(bytes) THEN c
    ELSE LET x == RefBits(U32(c.hi, Xor16(c.lo, bytes[i])), 8)
         IN  IF IsU32(x) THEN RefLoop(x, bytes, i + 1) ELSE x

RefCrc32(bytes) == Xor32(RefLoop(AllOnes, bytes, 1), AllOnes)

Sealed(c) ==
    LET b == as_bytes(c)
        n == Len(b)
    IN  /\ crc(c) = RefCrc32(c.chunk_type.bytes \o c.data)
        /\ U32(b[n - 3] * 256 + b[n - 2], b[n - 1] * 256 + b[n]) = crc(c)
        /\ (c.chunk_type.bytes = RuSt /\ c.data = Message) =>
               /\ length(c) = U32(0, 42)
               /\ crc(c) = U32(43985, 55374)      \* 2882656334

\* C5: every Chunk, produced by Chunk::new or by a successful decode, has
\* crc() equal to the reflected CRC-32 of its tag bytes followed by its
\* payload, and as_bytes() ends with that value in big-endian; "RuSt" with
\* the 42-byte message has length() 42 and crc() 2882656334.
C5_ChecksumInvariant ==
    [][/\ chunk' # chunk => Sealed(chunk')
       /\ (res' # res /\ res'.kind = "Ok") => Sealed(res'.value)]_vars

\* a decode has produced the "RuSt" message chunk
C5_Witness ==
    /\ res.kind = "Ok"
    /\ res.value.chunk_type.bytes = RuSt
    /\ res.value.data = Message
    /\ crc(res.value) = U32(43985, 55374)

-----------------------------------------------------------------------------
(* Properties of the container, checked under SpecPng *)

\* the last two calls were append_chunk(appended) and chunk_by_type with the
\* text of appended's tag
LookedUpAppended ==
    /\ appended # None
    /\ lookup # None
    /\ Ok(lookup.query) = ChunkType_to_string(appended.chunk_type)

SameTag(c, d) == c.chunk_type.bytes = d.chunk_type.bytes

\* C9 as stated: after append_chunk(c), chunk_by_type with c's tag text
\* returns the chunk c just appended, also when the container already holds
\* earlier chunks with the same tag.
C9_Original ==
    LookedUpAppended =>
        lookup.result.kind = "Some" /\ lookup.result.chunk = appended

\* C9, amended: after append_chunk(c), chunk_by_type with c's tag text
\* returns the lowest-index chunk carrying c's tag; that is the chunk just
\* appended exactly when no earlier chunk carries the same tag.
C9_AppendThenLookup ==
    LookedUpAppended =>
        /\ lookup.result.kind = "Some"
        /\ LET i == lookup.result.index
               n == Len(chunks)
           IN  /\ i \in 1..n
               /\ chunks[n] = appended
               /\ lookup.result.chunk = chunks[i]
               /\ SameTag(chunks[i], appended)
               /\ \A j \in 1..(i - 1) : ~SameTag(chunks[j], appended)
               /\ (i = n) = (\A j \in 1..(n - 1) : ~SameTag(chunks[j], appended))

\* the lookup after an append has returned an earlier chunk with the same
\* tag and another payload
C9_Witness ==
    /\ LookedUpAppended
    /\ lookup.result.kind = "Some"
    /\ lookup.result.index < Len(chunks)
    /\ lookup.result.chunk # appended

\* the indices of the chunks of cs whose tag bytes are the text's
Matches(cs, text) == {i \in 1..Len(cs) : cs[i].chunk_type.bytes = text}

Least(S) == CHOOSE i \in S : \A j \in S : i <= j

\* C10: remove_chunk with a well-formed tag removes exactly one chunk, the
\* lowest-index chunk whose tag bytes equal the tag, and leaves every other
\* chunk, later ones with the same tag included, in place and in order, so
\* that the count drops by exactly 1; when no chunk has the tag it fails with
\* ChunkNotFound and the chunk list is unchanged.
C10_RemoveFirst ==
    (removal # None /\ Len(removal.query) = 4 /\ AllLetters(removal.query)) =>
        LET before == removal.before
            m == Matches(before, removal.query)
        IN  IF m = {}
            THEN removal.result = ChunkNotFound /\ chunks = before
            ELSE /\ removal.result.kind = "Ok"
                 /\ Len(chunks) = Len(before) - 1
                 /\ \A j \in 1..(Least(m) - 1) : chunks[j] = before[j]
                 /\ \A j \in Least(m)..Len(chunks) : chunks[j] = before[j + 1]

\* a removal from a list that held the tag twice, not in first place, has
\* left the later one behind
C10_Witness ==
    /\ removal # None
    /\ removal.result.kind = "Ok"
    /\ Cardinality(Matches(removal.before, removal.query)) = 2
    /\ Least(Matches(removal.before, removal.query)) = 2
    /\ Matches(chunks, removal.query) = {2}

=============================================================================
